---- MODULE Spec2Model ----
(***************************************************************************)
(* Nellis Auction search monitor.                                          *)
(*                                                                         *)
(* Scalar mode  : nellis_monitor.py            (check_once, state file)    *)
(* Listing mode : nellis_monitor_playwright.py (main, cross-query de-dupe) *)
(*                                                                         *)
(* Four specifications share the variables below:                          *)
(*   Spec        one run of check_once (scalar mode)                       *)
(*   SpecRuns    successive runs of check_once over one state file         *)
(*   SpecListing one run of main of the Playwright monitor (listing mode)  *)
(*   SpecStore   load_state / save_state applied to bounded documents      *)
(***************************************************************************)
EXTENDS Integers, Sequences, FiniteSets, TLC

\* ------------------------------------------------------------------------
\* Bounds of the model
\* ------------------------------------------------------------------------
\* largest result count a page reports
MaxCount == 2
\* most "<N> items found" occurrences in one page
MaxMatches == 2

\* most /p/ anchors on one search page
MaxLinks == 2
\* most members of a state document given to load_state
MaxMembers == 2

\* the query URLs a configuration may name (opaque; ordered as strings are)
Urls == {1, 2}
Counts == 0 .. MaxCount

\* The value Python's None is modelled by.
None == -1

\* the longest string of digits int() converts (the interpreter's
\* sys.int_info.default_max_str_digits); a longer one raises ValueError
MaxStrDigits == 4300

\* ------------------------------------------------------------------------
\* Small helpers on sequences and sets
\* ------------------------------------------------------------------------
SeqsUpTo(S, n) == UNION {[1 .. k -> S] : k \in 0 .. n}

Range(s) == {s[k] : k \in DOMAIN s}

IsPrefix(s, t) == Len(s) <= Len(t) /\ SubSeq(t, 1, Len(s)) = s

MinOf(S) == CHOOSE m \in S : \A o \in S : m <= o

\* sorted(keys): ascending order of the keys of a dict
RECURSIVE SortedKeys(_)
SortedKeys(S) ==
    IF S = {} THEN <<>>
    ELSE <<MinOf(S)>> \o SortedKeys(S \ {MinOf(S)})

\* ------------------------------------------------------------------------
\* The state document (STATE_FILE): JSON text as a sequence of tokens
\* ------------------------------------------------------------------------
\* a string of digits too long for int()
Overlong == [k \in 1 .. MaxStrDigits + 1 |-> 9]

\* int() of a string of digits returns (it raises ValueError otherwise)
IntOk(d) == Len(d) >= 1 /\ Len(d) <= MaxStrDigits

\* decimal digits of a non-negative integer, as json.dump writes them
RECURSIVE Digits(_)
Digits(n) ==
    IF n < 10 THEN <<n>> ELSE Digits(n \div 10) \o <<n % 10>>

\* the integer a digit string denotes, as int() / the JSON parser read it
RECURSIVE DigitsValue(_)
DigitsValue(d) ==
    IF d = <<>> THEN 0
    ELSE 10 * DigitsValue(SubSeq(d, 1, Len(d) - 1)) + d[Len(d)]

\* JSON values.  t: "num" (d and, for a float, the fraction digits f),
\* "str" (a string of digits, possibly signed), "word" (any other string),
\* "true", "false", "null", "array".
JNum(neg, d, f) == [t |-> "num", neg |-> neg, d |-> d, f |-> f]
JStr(neg, d) == [t |-> "str", neg |-> neg, d |-> d, f |-> <<>>]
JLit(t) == [t |-> t, neg |-> FALSE, d |-> <<>>, f |-> <<>>]

\* json.dump of a Python int
JInt(n) == JNum(n < 0, Digits(IF n < 0 THEN -n ELSE n), <<>>)

\* Tokens of the document
LBrace == [tok |-> "{", key |-> 0, val |-> JLit("null")]
RBrace == [tok |-> "}", key |-> 0, val |-> JLit("null")]
LBracket == [tok |-> "[", key |-> 0, val |-> JLit("null")]
RBracket == [tok |-> "]", key |-> 0, val |-> JLit("null")]
Junk == [tok |-> "junk", key |-> 0, val |-> JLit("null")]
Member(k, v) == [tok |-> "member", key |-> k, val |-> v]
\* the key and colon of a member whose value never reached the file
MemberKey(k) == [tok |-> "key", key |-> k, val |-> JLit("null")]
Scalar(v) == [tok |-> "scalar", key |-> 0, val |-> v]

\* A file: absent, or present with its text
NoFile == [exists |-> FALSE, text |-> <<>>]
FileOf(text) == [exists |-> TRUE, text |-> text]

\* A JSON number has at least one digit and no leading zero
JsonValueOk(v) ==
    v.t = "num" => Len(v.d) >= 1 /\ (Len(v.d) > 1 => v.d[1] # 0)

\* an integer literal of the document that the parser's int() refuses
JsonIntTooLong(v) == v.t = "num" /\ v.f = <<>> /\ Len(v.d) > MaxStrDigits

\* json.load: the parsed document, or the exception of the parser, which
\* reads the text from left to right and stops at the first thing wrong
\*   kind "object"  : members (a dict, later duplicates of a key win)
\*   kind "other"   : a JSON array or scalar (no .items())
\*   kind "error"   : json.JSONDecodeError
\*   kind "too_long": ValueError, from an integer literal longer than
\*                    MaxStrDigits
JsonLoad(text) ==
    LET n == Len(text)
        GoodMember(k) ==
            /\ text[k].tok = "member"
            /\ JsonValueOk(text[k].val)
            /\ ~JsonIntTooLong(text[k].val)
        stops == {k \in 2 .. n : ~GoodMember(k)}
        stop == IF stops = {} THEN n + 1 ELSE MinOf(stops)
        inner == SubSeq(text, 2, stop - 1)
    IN  IF n >= 1 /\ text[1] = LBrace
        THEN IF stop = n /\ text[n] = RBrace
             THEN [kind |-> "object",
                   data |-> [key \in {inner[k].key : k \in DOMAIN inner} |->
                               LET last == CHOOSE k \in DOMAIN inner :
                                             /\ inner[k].key = key
                                             /\ \A j \in DOMAIN inner :
                                                  inner[j].key = key => j <= k
                               IN  inner[last].val]]
             ELSE IF stop <= n /\ text[stop].tok = "member"
                       /\ JsonValueOk(text[stop].val)
             THEN [kind |-> "too_long", data |-> <<>>]
             ELSE [kind |-> "error", data |-> <<>>]
        ELSE IF n = 1 /\ text[1].tok = "scalar"
                     /\ JsonValueOk(text[1].val)
        THEN IF JsonIntTooLong(text[1].val)
             THEN [kind |-> "too_long", data |-> <<>>]
             ELSE [kind |-> "other", data |-> <<>>]
        ELSE IF n = 2 /\ text[1] = LBracket /\ text[2] = RBracket
        THEN [kind |-> "other", data |-> <<>>]
        ELSE [kind |-> "error", data |-> <<>>]

\* The parser reads a number written with a fraction as the nearest double
\* (float() rounds to nearest, ties to even) and int() drops the fraction
\* of that double.

\* bits of the significand of a double
MantissaBits == 53

\* the digits of 2^1024 - 2^970, halfway between the largest double and
\* 2^1024: the parser reads a number as inf from this value upward
FloatInfFrom ==
   <<1, 7, 9, 7, 6, 9, 3, 1, 3, 4, 8, 6, 2, 3, 1, 5, 8, 0, 7, 9, 3, 7, 2, 8,
      9, 7, 1, 4, 0, 5, 3, 0, 3, 4, 1, 5, 0, 7, 9, 9, 3, 4, 1, 3, 2, 7, 1, 0,
      0, 3, 7, 8, 2, 6, 9, 3, 6, 1, 7, 3, 7, 7, 8, 9, 8, 0, 4, 4, 4, 9, 6, 8,
      2, 9, 2, 7, 6, 4, 7, 5, 0, 9, 4, 6, 6, 4, 9, 0, 1, 7, 9, 7, 7, 5, 8, 7,
      2, 0, 7, 0, 9, 6, 3, 3, 0, 2, 8, 6, 4, 1, 6, 6, 9, 2, 8, 8, 7, 9, 1, 0,
      9, 4, 6, 5, 5, 5, 5, 4, 7, 8, 5, 1, 9, 4, 0, 4, 0, 2, 6, 3, 0, 6, 5, 7,
      4, 8, 8, 6, 7, 1, 5, 0, 5, 8, 2, 0, 6, 8, 1, 9, 0, 8, 9, 0, 2, 0, 0, 0,
      7, 0, 8, 3, 8, 3, 6, 7, 6, 2, 7, 3, 8, 5, 4, 8, 4, 5, 8, 1, 7, 7, 1, 1,
      5, 3, 1, 7, 6, 4, 4, 7, 5, 7, 3, 0, 2, 7, 0, 0, 6, 9, 8, 5, 5, 5, 7, 1,
      3, 6, 6, 9, 5, 9, 6, 2, 2, 8, 4, 2, 9, 1, 4, 8, 1, 9, 8, 6, 0, 8, 3, 4,
      9, 3, 6, 4, 7, 5, 2, 9, 2, 7, 1, 9, 0, 7, 4, 1, 6, 8, 4, 4, 4, 3, 6, 5,
      5, 1, 0, 7, 0, 4, 3, 4, 2, 7, 1, 1, 5, 5, 9, 6, 9, 9, 5, 0, 8, 0, 9, 3,
      0, 4, 2, 8, 8, 0, 1, 7, 7, 9, 0, 4, 1, 7, 4, 4, 9, 7, 7, 9, 2>>

\* a >= b for two strings of digits without leading zeros
DigitsGeq(a, b) ==
    \/ Len(a) > Len(b)
    \/ /\ Len(a) = Len(b)
       /\ LET diff == {k \in 1 .. Len(a) : a[k] # b[k]}
          IN  diff = {} \/ a[MinOf(diff)] > b[MinOf(diff)]

\* the parser reads the float with integer digits d as inf
FloatIsInf(d) == DigitsGeq(d, FloatInfFrom)

\* the k-th digit after the point, zero past the last written one
FracDigit(f, k) == IF k <= Len(f) THEN f[k] ELSE 0

\* compare two fractions written as digits after the point: -1, 0 or 1
FracCmp(f, g) ==
    LET n == IF Len(f) >= Len(g) THEN Len(f) ELSE Len(g)
        diff == {k \in 1 .. n : FracDigit(f, k) # FracDigit(g, k)}
    IN  IF diff = {} THEN 0
        ELSE IF FracDigit(f, MinOf(diff)) > FracDigit(g, MinOf(diff)) THEN 1
        ELSE -1

\* the digit k places before the end of the prefix d[1 .. p], zero before
\* the first digit
PrefixDigit(d, p, k) == IF p - k >= 1 THEN d[p - k] ELSE 0

\* the number written by d[1 .. p] modulo 2^j, j at most 6: its last six
\* digits decide it, 10^6 being a multiple of 2^j
PrefixMod(d, p, j) ==
    (PrefixDigit(d, p, 0) + 10 * PrefixDigit(d, p, 1)
     + 100 * PrefixDigit(d, p, 2) + 1000 * PrefixDigit(d, p, 3)
     + 10000 * PrefixDigit(d, p, 4) + 100000 * PrefixDigit(d, p, 5)) % 2 ^ j

\* the digits of the quotient of the number written by d and 2^j, j at
\* most 6, by long division: as many digits as d
DivPow2(d, j) ==
    [k \in 1 .. Len(d) |-> (PrefixMod(d, k - 1, j) * 10 + d[k]) \div 2 ^ j]

\* the n digits after the point of 2^-n: 0.5 divided by 2^(n - 1), six
\* halvings at a time
RECURSIVE Pow2Neg(_)
Pow2Neg(n) ==
    IF n <= 6 THEN DivPow2(<<5>> \o [k \in 1 .. n - 1 |-> 0], n - 1)
    ELSE DivPow2(Pow2Neg(n - 6) \o <<0, 0, 0, 0, 0, 0>>, 6)

\* the n digits after the point of 1 - 2^-n
OneMinusPow2Neg(n) ==
    LET p == Pow2Neg(n)
    IN  [k \in 1 .. n |-> IF k = n THEN 10 - p[k] ELSE 9 - p[k]]

\* floor(log2(n)) of a positive integer
RECURSIVE Log2(_)
Log2(n) == IF n <= 1 THEN 0 ELSE 1 + Log2(n \div 2)

\* int(float(text)) of the finite non-negative number written d.f: below
\* 2^52 the doubles around it are closer than one apart and the integer
\* part grows by one exactly when the number rounds up to the next
\* integer, that is from 1 - 2^-(53 - e) upward (the halfway point rounds
\* to the integer, whose significand is even); from 2^52 upward the
\* doubles are u = 2^(e - 52) apart and the number rounds to a multiple
\* of u
FloatInt(d, f) ==
    LET i == DigitsValue(d)
        e == IF i = 0 THEN -1 ELSE Log2(i)
    IN  IF e < MantissaBits - 1
        THEN IF FracCmp(f, OneMinusPow2Neg(MantissaBits - e)) >= 0
             THEN i + 1 ELSE i
        ELSE LET s == e - (MantissaBits - 1)
                 u == 2 ^ s
                 q == i \div u
                 r == i % u
                 side == IF s = 0 THEN FracCmp(f, <<5>>)
                         ELSE IF r > u \div 2 THEN 1
                         ELSE IF r < u \div 2 THEN -1
                         ELSE FracCmp(f, <<>>)
                 up == side > 0 \/ (side = 0 /\ q % 2 = 1)
             IN  (IF up THEN q + 1 ELSE q) * u

\* the exception int(v) raises on a parsed JSON value, "none" when it
\* returns: OverflowError for a float the parser read as inf, ValueError
\* for a string that is no integer, TypeError for null and for a list
PyIntExc(v) ==
    CASE v.t = "num" ->
           IF v.f # <<>> /\ FloatIsInf(v.d) THEN "OverflowError" ELSE "none"
      [] v.t = "str" -> IF IntOk(v.d) THEN "none" ELSE "ValueError"
      [] v.t = "word" -> "ValueError"
      [] v.t \in {"true", "false"} -> "none"
      [] OTHER -> "TypeError"

\* int(v) of a parsed JSON value: the integer (0 when int() raises) with
\* the exception
PyInt(v) ==
    LET mag == IF v.t = "num" /\ v.f # <<>> THEN FloatInt(v.d, v.f)
               ELSE DigitsValue(v.d)
        signed == IF v.neg THEN -mag ELSE mag
    IN  [exc |-> PyIntExc(v),
         v |-> IF PyIntExc(v) # "none" THEN 0
               ELSE IF v.t = "true" THEN 1
               ELSE IF v.t = "false" THEN 0
               ELSE signed]

\* The empty dict
EmptyMap == [u \in {} |-> 0]

\* load_state, lines 83-85: the body of the try block.  exc names the
\* exception the body raises ("none" when it returns); the comprehension
\* converts the values in the order the keys first appear in the document
\* and stops at the first one int() refuses
LoadBody(f) ==
    LET doc == JsonLoad(f.text)
        FirstAt(key) == MinOf({k \in DOMAIN f.text :
                                 f.text[k].tok = "member" /\ f.text[k].key = key})
        bad == {k \in DOMAIN doc.data : PyInt(doc.data[k]).exc # "none"}
        first == CHOOSE k \in bad : \A j \in bad : FirstAt(k) <= FirstAt(j)
    IN  IF doc.kind = "error"
        THEN [exc |-> "JSONDecodeError", map |-> EmptyMap]
        ELSE IF doc.kind = "too_long"
        THEN [exc |-> "ValueError", map |-> EmptyMap]
        ELSE IF doc.kind # "object"
        THEN [exc |-> "AttributeError", map |-> EmptyMap]
        ELSE IF bad # {}
        THEN [exc |-> PyInt(doc.data[first]).exc, map |-> EmptyMap]
        ELSE [exc |-> "none",
              map |-> [k \in DOMAIN doc.data |-> PyInt(doc.data[k]).v]]

\* faulty variant: the handler is "except json.JSONDecodeError" only
CaughtJsonOnly(exc) == exc = "JSONDecodeError"

\* the exceptions "except Exception" catches
Caught(exc) == TRUE

\* load_state: the map it returns, or raised when an exception escapes it
load_state(f) ==
    IF ~f.exists THEN [raised |-> FALSE, map |-> EmptyMap]
    ELSE LET r == LoadBody(f)
         IN  IF r.exc = "none" THEN [raised |-> FALSE, map |-> r.map]
             ELSE IF Caught(r.exc) THEN [raised |-> FALSE, map |-> EmptyMap]
             ELSE [raised |-> TRUE, map |-> EmptyMap]

\* json.dump(m, f, indent=2, sort_keys=True) of a dict whose values are
\* the integers written by vals: the encoder writes the members key by key
\* in sorted order and turns each integer into its digits, which raises
\* ValueError for an integer of more than MaxStrDigits digits; what was
\* written before, the key of that member included, stays in the file
SaveBody(vals) ==
    LET keys == SortedKeys(DOMAIN vals)
        bad == {k \in 1 .. Len(keys) : Len(vals[keys[k]].d) > MaxStrDigits}
    IN  IF bad = {}
        THEN [exc |-> "none",
              text |-> <<LBrace>>
                       \o [k \in 1 .. Len(keys) |->
                             Member(keys[k], vals[keys[k]])]
                       \o <<RBrace>>]
        ELSE [exc |-> "ValueError",
              text |-> <<LBrace>>
                       \o [k \in 1 .. MinOf(bad) - 1 |->
                             Member(keys[k], vals[keys[k]])]
                       \o <<MemberKey(keys[MinOf(bad)])>>]

\* json.dump(state, f, indent=2, sort_keys=True): the complete text
JsonDump(state) == SaveBody([k \in DOMAIN state |-> JInt(state[k])]).text

\* save_state, run to completion
save_state(state) == FileOf(JsonDump(state))

\* state.get(url, 0)
StateGet(state, url) == IF url \in DOMAIN state THEN state[url] ELSE 0

\* ------------------------------------------------------------------------
\* Variables
\* ------------------------------------------------------------------------
VARIABLES
    urls,       \* URLS: the configured list of query URLs
    policy,     \* ALERT_ON_TRANSITION_ONLY
    file,       \* STATE_FILE on disk
    rssFile,    \* RSS_FILE on disk
    pc,         \* position of the run
    i,          \* position of the for loop in URLS (1-based)
    state,      \* check_once: the dict loaded from STATE_FILE
    rss_items,  \* the list of feed entries built so far
    seen_listing_urls,  \* listing mode: listing URLs already in the feed
    log,        \* history: what each loop iteration of this run did
    lastOp,     \* history: what the latest step did
    contrib,    \* history: listing links of the processed pages, in order
    suggested,  \* history: listing links shown on explicit zero-result pages
    writes,     \* history: number of assignments state[url] = count, per URL
    file0,      \* history: STATE_FILE as it was when the run started
    hist        \* history: what the earlier runs of check_once did

vars == <<urls, policy, file, rssFile, pc, i, state, rss_items,
          seen_listing_urls, log, lastOp, contrib, suggested, writes,
          file0, hist>>

\* ------------------------------------------------------------------------
\* Scalar mode: nellis_monitor.py
\* ------------------------------------------------------------------------
\* What session.get / raise_for_status give for one URL: a transport error,
\* a timeout, a non-success status, or a page with
\*   matches : the digit strings N of the "<N> items found" occurrences of
\*             its HTML, in page order
\*   url     : resp.url, the URL the request ended at after redirects
FailureStatuses == {"transport_error", "timeout", "http_error"}

\* the digit strings a page may show as its count
CountTexts == {Digits(n) : n \in Counts} \cup {Overlong}

\* the digit strings of the occurrences after the first one, which
\* search() does not reach: a smaller and a larger count
LaterTexts == {Digits(0), Digits(MaxCount)}

MatchLists ==
    {m \in SeqsUpTo(CountTexts, MaxMatches) :
        \A k \in 2 .. Len(m) : m[k] \in LaterTexts}

Responses ==
    [status : FailureStatuses, matches : {<<>>}, url : {None}]
    \cup [status : {"ok"}, matches : MatchLists, url : Urls]

\* what stands for None as the result of a search
NoMatch == <<>>

\* COUNT_RE.search(html): group 1 of the first match, or NoMatch
CountSearch(matches) == IF matches = <<>> THEN NoMatch ELSE matches[1]

\* faulty variant: a failed fetch is reported as a count of 0
fetch_count_zero_on_failure(url, resp) ==
    LET m == CountSearch(resp.matches)
    IN  IF resp.status # "ok" THEN [count |-> 0, final_url |-> url]
        ELSE IF m = NoMatch THEN [count |-> 0, final_url |-> resp.url]
        ELSE IF ~IntOk(m) THEN [count |-> 0, final_url |-> url]
        ELSE [count |-> DigitsValue(m), final_url |-> resp.url]

\* faulty variant: a page without the count pattern is reported as a failure
fetch_count_none_on_no_match(url, resp) ==
    LET m == CountSearch(resp.matches)
    IN  IF resp.status # "ok" THEN [count |-> None, final_url |-> None]
        ELSE IF m = NoMatch THEN [count |-> None, final_url |-> None]
        ELSE IF ~IntOk(m) THEN [count |-> None, final_url |-> None]
        ELSE [count |-> DigitsValue(m), final_url |-> resp.url]

\* fetch_count: count is None on failure, which is every exception of the
\* try block: those of session.get and raise_for_status, and the ValueError
\* of int() for a count of more than MaxStrDigits digits
fetch_count(url, resp) ==
    LET m == CountSearch(resp.matches)
    IN  IF resp.status # "ok" THEN [count |-> None, final_url |-> None]
        ELSE IF m = NoMatch THEN [count |-> 0, final_url |-> resp.url]
        ELSE IF ~IntOk(m) THEN [count |-> None, final_url |-> None]
        ELSE [count |-> DigitsValue(m), final_url |-> resp.url]

\* NAMES: the friendly names of the configuration, which names URLS[0]
NAMES == 1 :> "Katy Automotive: h11 led bulbs"

\* NAMES.get(url, url)
NameOf(url) == IF url \in DOMAIN NAMES THEN NAMES[url] ELSE url

\* faulty variant: the transition test leaves out count > 0
should_alert_on_last_only(transition_only, last, count) ==
    IF transition_only THEN last = 0 ELSE count > 0

\* faulty variant: the transition test leaves out the stored count
should_alert_ignoring_last(transition_only, last, count) ==
    count > 0

\* the alert decision of check_once
should_alert(transition_only, last, count) ==
    IF count > 0
    THEN (IF transition_only THEN last = 0 ELSE TRUE)
    ELSE FALSE

\* the feed entry check_once appends for a query that has results
ScalarItem(url, count, final_url) ==
    [title |-> <<NameOf(url), count>>,
     link |-> IF final_url # None THEN final_url ELSE url,
     guid |-> <<url, count>>,
     description |-> count]

\* build_rss: the document as the list of its parts
Part(tag, val) == [tag |-> tag, val |-> val]

ChannelHead(title) ==
    <<Part("xml", 0), Part("rss", 0), Part("channel", 0),
      Part("title", title), Part("link", 0), Part("description", 0),
      Part("lastBuildDate", 0)>>

ChannelFoot == <<Part("/channel", 0), Part("/rss", 0)>>

ItemParts(it) ==
    <<Part("item", 0), Part("title", it.title), Part("link", it.link),
      Part("guid", it.guid), Part("description", it.description),
      Part("pubDate", 0), Part("/item", 0)>>

RECURSIVE AllItemParts(_)
AllItemParts(items) ==
    IF items = <<>> THEN <<>>
    ELSE ItemParts(Head(items)) \o AllItemParts(Tail(items))

build_rss(items) ==
    ChannelHead("Nellis Auction Search Monitor")
    \o AllItemParts(items) \o ChannelFoot

\* what is left of a line of the document that was written in part
Cut == Part("cut", 0)

\* the text a write of the document that stops early leaves: its first n
\* lines, then (cut) the beginning of the next one
PartialText(parts, n, cut) ==
    SubSeq(parts, 1, n) \o (IF cut THEN <<Cut>> ELSE <<>>)

\* A reader of the feed: the links of its <item> elements, in document order
RECURSIVE FeedLinks(_)
FeedLinks(parts) ==
    IF Len(parts) < 3 THEN <<>>
    ELSE IF parts[1].tag = "item" /\ parts[3].tag = "link"
         THEN <<parts[3].val>> \o FeedLinks(Tail(parts))
         ELSE FeedLinks(Tail(parts))

\* One entry of the history of a run
\*   fetched  : the response arrived with a success status
\*   matched  : its HTML holds a "<N> items found"
\*   readable : the N of the first one, if any, is a number int() converts
\*   count    : what fetch_count returned (None for a failure)
\*   last, alerted, appended, stored : what check_once then did
LogEntry(url, fetched, matched, readable, count, last, alerted, appended, stored) ==
    [url |-> url, fetched |-> fetched, matched |-> matched,
     readable |-> readable, count |-> count, last |-> last,
     alerted |-> alerted, appended |-> appended, stored |-> stored]

\* the fetch of an iteration succeeded: the response arrived with a success
\* status and the count it shows, if any, is a number int() converts
Succeeded(e) == e.fetched /\ e.readable

\* lastOp before any step
NoOp == [op |-> "none"]

\* What is known of a query from the runs before this one
\*   recent : the count of its most recent successful fetch (None: no
\*            successful fetch yet)
\*   since  : "alerted" when it alerted and no successful fetch gave 0
\*            since, "rearmed" when a successful fetch gave 0 after its
\*            latest alert, "none" when it never alerted
\* and run, the number of the run in progress
NoHist ==
    [run |-> 1, recent |-> [u \in Urls |-> None],
     since |-> [u \in Urls |-> "none"]]

\* URLS of the model: no query, one query, one query listed twice, two
\* queries; URLS[0], the query NAMES names, is URL 1
UrlLists == {<<>>, <<1>>, <<1, 1>>, <<1, 2>>}

\* Maps from query URL to last count
StateMaps == UNION {[S -> Counts] : S \in SUBSET Urls}

\* Documents that are no saved map
MalformedFiles ==
    {FileOf(<<>>), FileOf(<<LBrace>>), FileOf(<<LBracket, RBracket>>),
     FileOf(<<LBrace, Member(1, JLit("null")), RBrace>>)}

InitialFiles ==
    {NoFile} \cup {save_state(m) : m \in StateMaps} \cup MalformedFiles

Init ==
    /\ urls \in UrlLists
    /\ policy \in BOOLEAN
    /\ file \in InitialFiles
    /\ rssFile = NoFile
    /\ pc = "start"
    /\ i = 1
    /\ state = EmptyMap
    /\ rss_items = <<>>
    /\ seen_listing_urls = {}
    /\ log = <<>>
    /\ lastOp = NoOp
    /\ contrib = <<>>
    /\ suggested = {}
    /\ writes = [u \in Urls |-> 0]
    /\ file0 = file
    /\ hist = NoHist

\* check_once, lines 149-150
LoadState ==
    /\ pc = "start"
    /\ state' = load_state(file).map
    /\ rss_items' = <<>>
    /\ i' = 1
    /\ pc' = IF load_state(file).raised THEN "crashed" ELSE "loop"
    /\ UNCHANGED <<urls, policy, file, rssFile, seen_listing_urls, log,
                   lastOp, contrib, suggested, writes, file0, hist>>

\* the state a successful fetch leaves: state[url] = count
StateSet(st, url, count) ==
    [u \in DOMAIN st \cup {url} |-> IF u = url THEN count ELSE st[u]]

\* check_once, lines 153-184: one iteration of the for loop
Iterate ==
    /\ pc = "loop"
    /\ i <= Len(urls)
    /\ \E resp \in Responses :
        LET url == urls[i]
            r == fetch_count(url, resp)
            last == StateGet(state, url)
            alert == should_alert(policy, last, r.count)
            matched == resp.matches # <<>>
            fetched == resp.status = "ok"
            readable == matched => IntOk(resp.matches[1])
        IN  IF r.count = None
            THEN /\ UNCHANGED <<state, rss_items, writes>>
                 /\ log' = Append(log,
                        LogEntry(url, fetched, matched, readable, None, None,
                                 FALSE, FALSE, FALSE))
            ELSE /\ rss_items' =
                      IF r.count > 0
                      THEN Append(rss_items,
                                  ScalarItem(url, r.count, r.final_url))
                      ELSE rss_items
                 /\ state' = StateSet(state, url, r.count)
                 /\ writes' = [writes EXCEPT ![url] = @ + 1]
                 /\ log' = Append(log,
                        LogEntry(url, fetched, matched, readable, r.count,
                                 last, alert,
                                 Len(rss_items') > Len(rss_items), TRUE))
    /\ i' = i + 1
    /\ UNCHANGED <<urls, policy, file, rssFile, pc, seen_listing_urls, lastOp,
                   contrib, suggested, file0, hist>>

\* check_once, line 188: open(RSS_FILE, "w") creates or truncates the file
RssOpen ==
    /\ pc = "loop"
    /\ i > Len(urls)
    /\ rssFile' = FileOf(<<>>)
    /\ pc' = "rss_write"
    /\ UNCHANGED <<urls, policy, file, i, state, rss_items,
                   seen_listing_urls, log, lastOp, contrib, suggested,
                   writes, file0, hist>>

\* check_once, lines 187-189: the document is written and the file closed
RssWrite ==
    /\ pc = "rss_write"
    /\ rssFile' = FileOf(build_rss(rss_items))
    /\ pc' = "save_open"
    /\ UNCHANGED <<urls, policy, file, i, state, rss_items,
                   seen_listing_urls, log, lastOp, contrib, suggested,
                   writes, file0, hist>>

\* check_once, line 189: the write fails or the process is stopped after
\* only a part of the document reached the file
RssWritePartial ==
    /\ pc = "rss_write"
    /\ \E n \in 0 .. Len(build_rss(rss_items)) - 1, cut \in BOOLEAN :
        /\ n > 0 \/ cut
        /\ rssFile' = FileOf(PartialText(build_rss(rss_items), n, cut))
    /\ pc' = "crashed"
    /\ UNCHANGED <<urls, policy, file, i, state, rss_items,
                   seen_listing_urls, log, lastOp, contrib, suggested,
                   writes, file0, hist>>

\* save_state, line 90: open(STATE_FILE, "w") creates or truncates the file
SaveOpen ==
    /\ pc = "save_open"
    /\ file' = FileOf(<<>>)
    /\ pc' = "save_dump"
    /\ UNCHANGED <<urls, policy, rssFile, i, state, rss_items,
                   seen_listing_urls, log, lastOp, contrib, suggested,
                   writes, file0, hist>>

\* save_state, line 91: json.dump writes the whole document
SaveDump ==
    /\ pc = "save_dump"
    /\ file' = save_state(state)
    /\ pc' = "done"
    /\ UNCHANGED <<urls, policy, rssFile, i, state, rss_items,
                   seen_listing_urls, log, lastOp, contrib, suggested,
                   writes, file0, hist>>

\* save_state, line 91: the write fails or the process is stopped after
\* only a part of the document reached the file: some of its tokens, then
\* possibly the beginning of the next one
SaveDumpPartial ==
    /\ pc = "save_dump"
    /\ \E n \in 0 .. Len(JsonDump(state)) - 1, cut \in BOOLEAN :
        /\ n > 0 \/ cut
        /\ file' = FileOf(SubSeq(JsonDump(state), 1, n)
                          \o (IF cut THEN <<Junk>> ELSE <<>>))
    /\ pc' = "crashed"
    /\ UNCHANGED <<urls, policy, rssFile, i, state, rss_items,
                   seen_listing_urls, log, lastOp, contrib, suggested,
                   writes, file0, hist>>

\* check_once, lines 188-191: open() or write() raises OSError, or the
\* process is stopped, at an output step before anything more reached the
\* file; nothing catches it
OutputFailure ==
    /\ \/ pc \in {"rss_write", "save_open", "save_dump"}
       \/ (pc = "loop" /\ i > Len(urls))
    /\ pc' = "crashed"
    /\ UNCHANGED <<urls, policy, file, rssFile, i, state, rss_items,
                   seen_listing_urls, log, lastOp, contrib, suggested,
                   writes, file0, hist>>

Next ==
    \/ LoadState
    \/ Iterate
    \/ RssOpen
    \/ RssWrite
    \/ RssWritePartial
    \/ SaveOpen
    \/ SaveDump
    \/ SaveDumpPartial
    \/ OutputFailure

Spec == Init /\ [][Next]_vars

\* ------------------------------------------------------------------------
\* Scalar mode, run after run: main's loop, or one invocation per cron tick
\* ------------------------------------------------------------------------
\* the most runs of check_once in a sequence
MaxRuns == 3

\* the number of results the fetched page reported: no "<N> items found"
\* on a page that arrived is a count of 0
PageCount(e) == IF e.matched THEN e.count ELSE 0

\* hist after one more loop iteration e
Advance(h, e) ==
    IF Succeeded(e)
    THEN [h EXCEPT
            !.recent[e.url] = PageCount(e),
            !.since[e.url] =
                IF e.alerted THEN "alerted"
                ELSE IF PageCount(e) = 0 /\ @ = "alerted" THEN "rearmed"
                ELSE @]
    ELSE [h EXCEPT !.since[e.url] = IF e.alerted THEN "alerted" ELSE @]

\* hist after the first k iterations of entries
RECURSIVE HistAfter(_, _, _)
HistAfter(h, entries, k) ==
    IF k = 0 THEN h
    ELSE Advance(HistAfter(h, entries, k - 1), entries[k])

\* URLS of a sequence of runs: the lists that name a query
RunUrlLists == UrlLists \ {<<>>}

\* STATE_FILE before the first run of a sequence: absent, or left by an
\* earlier sequence with a count of 0 or a positive count for URLS[0]
RunInitialFiles == {NoFile, save_state(1 :> 0), save_state(1 :> MaxCount)}

InitRuns ==
    /\ urls \in RunUrlLists
    /\ policy = TRUE
    /\ file \in RunInitialFiles
    /\ rssFile = NoFile
    /\ pc = "start"
    /\ i = 1
    /\ state = EmptyMap
    /\ rss_items = <<>>
    /\ seen_listing_urls = {}
    /\ log = <<>>
    /\ lastOp = NoOp
    /\ contrib = <<>>
    /\ suggested = {}
    /\ writes = [u \in Urls |-> 0]
    /\ file0 = file
    /\ hist = NoHist

\* main, lines 194-200: check_once returned, and check_once is called
\* again (after the sleep of the loop, or by the next invocation); the new
\* call starts from fresh locals and from STATE_FILE as the run left it.
\* A sequence of runs ends with the first run that does not complete.
StartNextRun ==
    /\ pc = "done"
    /\ hist.run < MaxRuns
    /\ hist' = [HistAfter(hist, log, Len(log)) EXCEPT !.run = @ + 1]
    /\ pc' = "start"
    /\ i' = 1
    /\ state' = EmptyMap
    /\ rss_items' = <<>>
    /\ log' = <<>>
    /\ writes' = [u \in Urls |-> 0]
    /\ file0' = file
    /\ UNCHANGED <<urls, policy, file, rssFile, seen_listing_urls, lastOp,
                   contrib, suggested>>

NextRuns ==
    \/ LoadState
    \/ Iterate
    \/ RssOpen
    \/ RssWrite
    \/ RssWritePartial
    \/ SaveOpen
    \/ SaveDump
    \/ SaveDumpPartial
    \/ OutputFailure
    \/ StartNextRun

SpecRuns == InitRuns /\ [][NextRuns]_vars

\* ------------------------------------------------------------------------
\* Listing mode: nellis_monitor_playwright.py
\* ------------------------------------------------------------------------
\* the listings of the site (the numeric id that ends a listing's path)
Listings == {1, 2, 3}

\* href attributes of the a[href^='/p/'] anchors of a page: the path of a
\* listing, or 0 for a /p/ path that does not end in a numeric id
Hrefs == Listings \cup {0}

\* ITEM_HREF_RE.match(href)
ItemHrefMatch(href) == href \in Listings

\* "https://nellisauction.com" + href
AbsUrl(href) == [host |-> "nellisauction.com", path |-> href]

\* extract_listing_links, lines 149-152
RECURSIVE MatchingLinks(_)
MatchingLinks(hrefs) ==
    IF hrefs = <<>> THEN <<>>
    ELSE (IF ItemHrefMatch(Head(hrefs)) THEN <<AbsUrl(Head(hrefs))>>
          ELSE <<>>) \o MatchingLinks(Tail(hrefs))

\* extract_listing_links, lines 155-161: de-dupe while preserving order
RECURSIVE Unique(_, _)
Unique(links, seen) ==
    IF links = <<>> THEN <<>>
    ELSE IF Head(links) \in seen THEN Unique(Tail(links), seen)
    ELSE <<Head(links)>> \o Unique(Tail(links), seen \cup {Head(links)})

extract_listing_links(hrefs) == Unique(MatchingLinks(hrefs), {})

\* the number N of a "<N> items found when searching for" sentence in the
\* body text (None when the body has no such sentence)
PhraseCounts == {None, 0, 10}

\* ZERO_RESULTS_RE.search(body_text): "0", then blanks, then the words;
\* the "0" may be the last digit of a longer number
ZeroResultsSearch(phrase) == phrase # None /\ phrase % 10 = 0

\* INCLUDE_ZERO_COUNT_IN_RSS
INCLUDE_ZERO_COUNT_IN_RSS == FALSE

\* page.url when nothing was loaded
NoUrl == 0

\* What a search page gives: how page.goto ended (a navigation timeout is
\* caught and the page is used as far as it loaded), page.url (the query
\* URL, another URL after a redirect, or none), the sentence of the body
\* text, the /p/ anchors in page order, the listings whose anchor has an
\* <img> with a src on this page, and the listings whose anchor has a title
\* of three characters or more on this page (none of them, or all).
\* The anchors of a page that says "0 items found" are the suggestions of
\* the site; their images and titles are left out.  page.url is an input
\* of the entry of a zero-results page only (elsewhere it is printed), so
\* the listing pages come with one value of it.
ZeroPages ==
    [nav : {"ok", "timeout"}, url : Urls \cup {NoUrl},
     phrase : {p \in PhraseCounts : ZeroResultsSearch(p)},
     hrefs : SeqsUpTo(Hrefs, MaxLinks), imgs : {{}}, titles : {{}}]

ListingPages ==
    UNION {[nav : {"ok", "timeout"}, url : {1},
            phrase : {p \in PhraseCounts : ~ZeroResultsSearch(p)},
            hrefs : {h},
            imgs : SUBSET (Range(h) \cap Listings),
            titles : {{}, Range(h) \cap Listings}] :
           h \in SeqsUpTo(Hrefs, MaxLinks)}

Pages == ZeroPages \cup ListingPages

\* the src of the <img> of a listing: protocol-relative for listing 1,
\* absolute for listing 2, root-relative for the others
ImgSrc(listing) ==
    IF listing = 1 THEN <<"//", "cdn", listing>>
    ELSE IF listing = 2 THEN <<"https://", "cdn", listing>>
    ELSE <<"/", "img", listing>>

\* normalize_img_url
normalize_img_url(src) ==
    IF src = <<>> THEN <<>>
    ELSE IF src[1] = "//" THEN <<"https:">> \o src
    ELSE IF src[1] = "/" THEN <<"https://nellisauction.com">> \o src
    ELSE src

\* extract_listing_images: listing URL -> image URL, for the matching
\* anchors that have an <img> with a src
extract_listing_images(hrefs, imgs) ==
    [l \in {AbsUrl(hrefs[k]) : k \in {j \in DOMAIN hrefs :
                ItemHrefMatch(hrefs[j]) /\ hrefs[j] \in imgs}} |->
        normalize_img_url(ImgSrc(l.path))]

\* images_map.get(listing_url, "")
ImageGet(images_map, listing_url) ==
    IF listing_url \in DOMAIN images_map THEN images_map[listing_url]
    ELSE <<>>

\* extract_listing_titles: listing URL -> title text, for the matching
\* anchors that have a title on the page
extract_listing_titles(hrefs, titles) ==
    [l \in {AbsUrl(hrefs[k]) : k \in {j \in DOMAIN hrefs :
                ItemHrefMatch(hrefs[j]) /\ hrefs[j] \in titles}} |->
        <<"title", l.path>>]

\* titles_map.get(listing_url), and the title derived from the slug of the
\* URL when the page gave none
TitleGet(titles_map, listing_url) ==
    IF listing_url \in DOMAIN titles_map THEN titles_map[listing_url]
    ELSE <<"slug", listing_url.path>>

\* make_description_html: the search name, the listing link and, when there
\* is an image, the <img> paragraph
make_description_html(search_name, listing_url, image_url) ==
    [search |-> search_name, link |-> listing_url, img |-> image_url]

\* the feed entry main appends for a listing
ListingItem(search_url, listing_url, title, image_url) ==
    [title |-> title,
     link |-> listing_url,
     guid |-> listing_url,
     description |->
        make_description_html(NameOf(search_url), listing_url, image_url),
     image_url |-> image_url]

\* the placeholder entry of a zero-result search
ZeroItem(search_url, final_url) ==
    [title |-> <<NameOf(search_url), 0>>,
     link |-> IF final_url # NoUrl THEN final_url ELSE search_url,
     guid |-> <<search_url, 0>>,
     description |-> 0,
     image_url |-> <<>>]

\* faulty variant: no de-dupe across searches
RECURSIVE AddListingsNoSeen(_, _, _, _, _, _)
AddListingsNoSeen(search_url, links, images_map, titles_map, items, seen) ==
    IF links = <<>> THEN [items |-> items, seen |-> seen]
    ELSE AddListingsNoSeen(search_url, Tail(links), images_map, titles_map,
             Append(items,
                    ListingItem(search_url, Head(links),
                                TitleGet(titles_map, Head(links)),
                                ImageGet(images_map, Head(links)))),
             seen \cup {Head(links)})

\* faulty variant: a new entry is put in front of the list
RECURSIVE AddListingsPrepend(_, _, _, _, _, _)
AddListingsPrepend(search_url, links, images_map, titles_map, items, seen) ==
    IF links = <<>> THEN [items |-> items, seen |-> seen]
    ELSE IF Head(links) \in seen
         THEN AddListingsPrepend(search_url, Tail(links), images_map,
                                 titles_map, items, seen)
         ELSE AddListingsPrepend(search_url, Tail(links), images_map,
                  titles_map,
                  <<ListingItem(search_url, Head(links),
                                TitleGet(titles_map, Head(links)),
                                ImageGet(images_map, Head(links)))>>
                  \o items,
                  seen \cup {Head(links)})

\* main, lines 304-326: the loop over the listing links of one page
RECURSIVE AddListings(_, _, _, _, _, _)
AddListings(search_url, links, images_map, titles_map, items, seen) ==
    IF links = <<>> THEN [items |-> items, seen |-> seen]
    ELSE IF Head(links) \in seen
         THEN AddListings(search_url, Tail(links), images_map, titles_map,
                          items, seen)
         ELSE AddListings(search_url, Tail(links), images_map, titles_map,
                  Append(items,
                         ListingItem(search_url, Head(links),
                                     TitleGet(titles_map, Head(links)),
                                     ImageGet(images_map, Head(links)))),
                  seen \cup {Head(links)})

\* faulty variant: the zero-results sentence is not looked for
ProcessPageNoZeroCheck(search_url, page, items, seen) ==
    AddListings(search_url, extract_listing_links(page.hrefs),
                extract_listing_images(page.hrefs, page.imgs),
                extract_listing_titles(page.hrefs, page.titles), items, seen)

\* main, lines 278-328: what one loaded page adds to rss_items and to
\* seen_listing_urls
ProcessPage(search_url, page, items, seen) ==
    IF ZeroResultsSearch(page.phrase)
    THEN [items |-> IF INCLUDE_ZERO_COUNT_IN_RSS
                    THEN Append(items, ZeroItem(search_url, page.url))
                    ELSE items,
          seen |-> seen]
    ELSE AddListings(search_url, extract_listing_links(page.hrefs),
                     extract_listing_images(page.hrefs, page.imgs),
                     extract_listing_titles(page.hrefs, page.titles),
                     items, seen)

\* build_rss of the Playwright monitor: the parts of one entry, with an
\* <enclosure> for an entry that has an image
PwItemParts(it) ==
    <<Part("item", 0), Part("title", it.title), Part("link", it.link),
      Part("guid", it.guid), Part("description", it.description)>>
    \o (IF it.image_url # <<>> THEN <<Part("enclosure", it.image_url)>>
        ELSE <<>>)
    \o <<Part("pubDate", 0), Part("/item", 0)>>

RECURSIVE PwAllItemParts(_)
PwAllItemParts(items) ==
    IF items = <<>> THEN <<>>
    ELSE PwItemParts(Head(items)) \o PwAllItemParts(Tail(items))

\* build_rss of the Playwright monitor
pw_build_rss(items) ==
    ChannelHead("Nellis Auction Listings")
    \o PwAllItemParts(items) \o ChannelFoot

\* the links of a list of feed entries
LinksOf(items) == [k \in DOMAIN items |-> items[k].link]

\* URLS of the listing run: no query, one query, two queries
ListingUrlLists == {<<>>, <<1>>, <<1, 2>>}

InitListing ==
    /\ urls \in ListingUrlLists
    /\ policy = TRUE
    /\ file = NoFile
    /\ rssFile = NoFile
    /\ pc = "pw_loop"
    /\ i = 1
    /\ state = EmptyMap
    /\ rss_items = <<>>
    /\ seen_listing_urls = {}
    /\ log = <<>>
    /\ lastOp = NoOp
    /\ contrib = <<>>
    /\ suggested = {}
    /\ writes = [u \in Urls |-> 0]
    /\ file0 = NoFile
    /\ hist = NoHist

\* main, lines 267-328: one iteration of the for loop, page.goto having
\* returned or timed out
PwIterate ==
    /\ pc = "pw_loop"
    /\ i <= Len(urls)
    /\ \E page \in Pages :
        LET r == ProcessPage(urls[i], page, rss_items, seen_listing_urls)
            zero == ZeroResultsSearch(page.phrase)
            links == MatchingLinks(page.hrefs)
        IN  /\ rss_items' = r.items
            /\ seen_listing_urls' = r.seen
            /\ contrib' = IF zero THEN contrib ELSE contrib \o links
            /\ suggested' = IF zero THEN suggested \cup Range(links)
                            ELSE suggested
            /\ lastOp' = [op |-> "page", nav |-> page.nav, zero |-> zero,
                          links |-> links,
                          added |-> Len(r.items) - Len(rss_items),
                          seenAdded |-> r.seen \ seen_listing_urls]
    /\ i' = i + 1
    /\ UNCHANGED <<urls, policy, file, rssFile, pc, state, log, writes,
                   file0, hist>>

\* main, lines 271-275: page.goto raises an error that is no
\* PlaywrightTimeoutError (the host cannot be reached, the connection is
\* refused); nothing catches it
PwNavError ==
    /\ pc = "pw_loop"
    /\ i <= Len(urls)
    /\ pc' = "crashed"
    /\ lastOp' = [op |-> "nav_error"]
    /\ UNCHANGED <<urls, policy, file, rssFile, i, state, rss_items,
                   seen_listing_urls, log, contrib, suggested, writes,
                   file0, hist>>

\* main, line 332: open(RSS_FILE, "w") creates or truncates the file
PwOpenRss ==
    /\ pc = "pw_loop"
    /\ i > Len(urls)
    /\ rssFile' = FileOf(<<>>)
    /\ pc' = "pw_write"
    /\ lastOp' = [op |-> "open"]
    /\ UNCHANGED <<urls, policy, file, i, state, rss_items,
                   seen_listing_urls, log, contrib, suggested, writes,
                   file0, hist>>

\* main, lines 332-333: the document is written and the file closed
PwWriteRss ==
    /\ pc = "pw_write"
    /\ rssFile' = FileOf(pw_build_rss(rss_items))
    /\ pc' = "done"
    /\ UNCHANGED <<urls, policy, file, i, state, rss_items,
                   seen_listing_urls, log, lastOp, contrib, suggested,
                   writes, file0, hist>>

\* main, line 333: the write fails or the process is stopped after only a
\* part of the document reached the file
PwWritePartial ==
    /\ pc = "pw_write"
    /\ \E n \in 0 .. Len(pw_build_rss(rss_items)) - 1, cut \in BOOLEAN :
        /\ n > 0 \/ cut
        /\ rssFile' = FileOf(PartialText(pw_build_rss(rss_items), n, cut))
    /\ pc' = "crashed"
    /\ UNCHANGED <<urls, policy, file, i, state, rss_items,
                   seen_listing_urls, log, lastOp, contrib, suggested,
                   writes, file0, hist>>

\* main, lines 332-333: open() raises OSError, or write() does before
\* anything reached the file
PwWriteFails ==
    /\ \/ (pc = "pw_loop" /\ i > Len(urls))
       \/ pc = "pw_write"
    /\ pc' = "crashed"
    /\ lastOp' = [op |-> "write_error"]
    /\ UNCHANGED <<urls, policy, file, rssFile, i, state, rss_items,
                   seen_listing_urls, log, contrib, suggested, writes,
                   file0, hist>>

NextListing ==
    \/ PwIterate
    \/ PwNavError
    \/ PwOpenRss
    \/ PwWriteRss
    \/ PwWritePartial
    \/ PwWriteFails

SpecListing == InitListing /\ [][NextListing]_vars

\* ------------------------------------------------------------------------
\* The state store alone: load_state and save_state on bounded documents
\* ------------------------------------------------------------------------
\* a fraction of twenty nines: nearer to 1 than half the gap between the
\* doubles around a small integer
Nines == [k \in 1 .. 20 |-> 9]

\* JSON values a document may hold: integers, a negative integer, floats
\* (two of them read as the next integer), a number with a leading zero (no
\* JSON), an integer and a float too long for int(), numeric and other
\* strings, true, null, an array
StoreValues ==
    {JInt(0), JInt(7), JInt(12), JInt(-3),
     JNum(FALSE, <<2>>, <<7>>), JNum(TRUE, <<2>>, <<7>>),
     JNum(FALSE, <<2>>, Nines), JNum(TRUE, <<2>>, Nines),
     JNum(FALSE, <<0, 7>>, <<>>),
     JNum(FALSE, Overlong, <<>>), JNum(FALSE, Overlong, <<7>>),
     JStr(FALSE, <<5>>), JStr(FALSE, <<>>), JStr(FALSE, Overlong),
     JLit("word"),
     JLit("true"), JLit("false"), JLit("null"), JLit("array")}

StoreMembers == {Member(k, v) : k \in Urls, v \in StoreValues}

StoreDocs ==
    {NoFile, FileOf(<<>>), FileOf(<<Junk>>), FileOf(<<LBracket, RBracket>>),
     FileOf(<<Scalar(JInt(5))>>),
     FileOf(<<Scalar(JNum(FALSE, <<0, 7>>, <<>>))>>),
     FileOf(<<Scalar(JNum(FALSE, Overlong, <<>>))>>)}
    \cup {FileOf(<<LBrace>> \o ms \o <<RBrace>>) :
            ms \in SeqsUpTo(StoreMembers, MaxMembers)}
    \cup {FileOf(<<LBrace>> \o ms) :
            ms \in SeqsUpTo(StoreMembers, MaxMembers - 1)}

\* the counts of the maps given to save_state, as json.dump writes them,
\* one of them an integer of more than MaxStrDigits digits
StoreCounts == {0, 7, 10, 120}

StoreInts == {JInt(n) : n \in StoreCounts} \cup {JNum(FALSE, Overlong, <<>>)}

StoreMaps == UNION {[S -> StoreInts] : S \in SUBSET Urls}

InitStore ==
    /\ urls = <<>>
    /\ policy = TRUE
    /\ file \in StoreDocs
    /\ rssFile = NoFile
    /\ pc = "store"
    /\ i = 1
    /\ state = EmptyMap
    /\ rss_items = <<>>
    /\ seen_listing_urls = {}
    /\ log = <<>>
    /\ lastOp = NoOp
    /\ contrib = <<>>
    /\ suggested = {}
    /\ writes = [u \in Urls |-> 0]
    /\ file0 = NoFile
    /\ hist = NoHist

\* load_state() on the document as it is
StoreLoad ==
    /\ pc = "store"
    /\ state' = load_state(file).map
    /\ lastOp' = [op |-> "load", raised |-> load_state(file).raised]
    /\ pc' = "loaded"
    /\ UNCHANGED <<urls, policy, file, rssFile, i, rss_items,
                   seen_listing_urls, log, contrib, suggested, writes,
                   file0, hist>>

\* save_state(m) over whatever the file held: open() truncates the file,
\* json.dump writes until it is done or raises, and save_state lets the
\* exception out
StoreSave ==
    /\ pc = "store"
    /\ \E m \in StoreMaps :
        /\ file' = FileOf(SaveBody(m).text)
        /\ log' = <<m>>
        /\ lastOp' = [op |-> "save", raised |-> SaveBody(m).exc # "none"]
    /\ pc' = "saved"
    /\ UNCHANGED <<urls, policy, rssFile, i, state, rss_items,
                   seen_listing_urls, contrib, suggested, writes, file0, hist>>

\* load_state() after save_state(m), whether it returned or raised
StoreReload ==
    /\ pc = "saved"
    /\ state' = load_state(file).map
    /\ lastOp' = [op |-> "reload", raised |-> load_state(file).raised]
    /\ pc' = "reloaded"
    /\ UNCHANGED <<urls, policy, file, rssFile, i, rss_items,
                   seen_listing_urls, log, contrib, suggested, writes,
                   file0, hist>>

NextStore ==
    \/ StoreLoad
    \/ StoreSave
    \/ StoreReload

SpecStore == InitStore /\ [][NextStore]_vars

\* ------------------------------------------------------------------------
\* Properties
\* ------------------------------------------------------------------------
MaxOf(S) == CHOOSE m \in S : \A o \in S : o <= m

\* the map STATE_FILE held when the run started
Before == load_state(file0).map

\* the count on record for the URL of iteration k when that iteration
\* starts: the count of its latest earlier successful fetch of this run,
\* else the persisted count, else 0
LastCountBefore(k) ==
    LET u == log[k].url
        S == {j \in 1 .. k - 1 : log[j].url = u /\ log[j].count # None}
    IN  IF S # {} THEN log[MaxOf(S)].count
        ELSE IF u \in DOMAIN Before THEN Before[u] ELSE 0

\* C1: in scalar mode, for every successfully fetched query an alert is
\* emitted iff current > 0 and (the policy is 'always' or last = 0), last
\* being the count on record (0 when there is none): never for current = 0,
\* under transition-only exactly for (0, c > 0), under always whatever last
C1_AlertIffPositiveAndArmed ==
    \A k \in DOMAIN log :
        log[k].count # None =>
            /\ log[k].last = LastCountBefore(k)
            /\ log[k].alerted <=>
                 (log[k].count > 0 /\ (~policy \/ LastCountBefore(k) = 0))

\* C1 witness: under transition-only one query alerts on (0, c > 0) and a
\* later fetch with (last > 0, c > 0) does not
C1_Witness ==
    /\ policy
    /\ \E j, k \in DOMAIN log :
        /\ j < k
        /\ log[j].count > 0 /\ log[j].last = 0 /\ log[j].alerted
        /\ log[k].count > 0 /\ log[k].last > 0 /\ ~log[k].alerted

\* the positions of the list at which the fetch of u succeeded
SuccessPositions(u) ==
    {k \in DOMAIN log : log[k].url = u /\ Succeeded(log[k])}

\* u has the same entry in maps a and b (the same value, or none in both)
SameEntry(a, b, u) ==
    /\ u \in DOMAIN a <=> u \in DOMAIN b
    /\ u \in DOMAIN a => a[u] = b[u]

\* the claim of C2 at one position of the list
C2_AtPosition(k, final) ==
    LET u == log[k].url
    IN  IF Succeeded(log[k])
        THEN writes[u] = 1 /\ u \in DOMAIN final /\ final[u] = log[k].count
        ELSE SameEntry(final, Before, u)

\* C2 as stated: after a run, each query whose fetch succeeded was written
\* exactly once and holds the count fetched, and each query whose fetch
\* failed has its entry as before, for every configured list
C2_Original ==
    pc = "done" =>
        \A k \in DOMAIN log : C2_AtPosition(k, load_state(file).map)

\* C2 amended: after a run, every URL was written once per successful fetch
\* of it; a URL with a successful fetch holds the count of its last
\* successful fetch, a URL with none has its entry as before; for a list of
\* pairwise distinct URLs that is the claim as stated
C2_WrittenPerSuccessfulFetch ==
    pc = "done" =>
        LET final == load_state(file).map
        IN  /\ \A u \in Urls :
                LET S == SuccessPositions(u)
                IN  /\ writes[u] = Cardinality(S)
                    /\ S # {} =>
                         u \in DOMAIN final
                         /\ final[u] = log[MaxOf(S)].count
                    /\ S = {} => SameEntry(final, Before, u)
            /\ (\A j, k \in DOMAIN urls : j # k => urls[j] # urls[k]) =>
                 \A k \in DOMAIN log : C2_AtPosition(k, final)

\* C2 witness: a run of two distinct queries ends, one fetched with a new
\* count, the other failed with a positive count on record
C2_Witness ==
    /\ pc = "done"
    /\ Len(log) = 2
    /\ log[1].url # log[2].url
    /\ Succeeded(log[1]) /\ log[1].count # StateGet(Before, log[1].url)
    /\ ~log[2].fetched
    /\ log[2].url \in DOMAIN Before /\ Before[log[2].url] > 0

\* the links of the feed entries are pairwise different
NoDuplicates(links) ==
    \A j, k \in DOMAIN links : j # k => links[j] # links[k]

\* C3: in listing mode, at every point of a run and in the written feed, no
\* listing URL is the link of more than one entry, and every listing URL a
\* processed page contributed has its entry
C3_OneEntryPerListing ==
    /\ NoDuplicates(LinksOf(rss_items))
    /\ Range(LinksOf(rss_items)) = Range(contrib)
    /\ pc = "done" =>
         /\ NoDuplicates(FeedLinks(rssFile.text))
         /\ Range(FeedLinks(rssFile.text)) = Range(contrib)

\* C3 witness: a listing found twice on one page and again by the next
\* query, and a second listing: two entries in the written feed
C3_Witness ==
    /\ pc = "done"
    /\ Len(contrib) = 4
    /\ contrib[1] = contrib[2] /\ contrib[1] = contrib[3]
    /\ contrib[4] # contrib[1]
    /\ Len(FeedLinks(rssFile.text)) = 2

\* the sequence with every occurrence of an element after its first removed
FirstOccurrences(seq) ==
    LET P == {k \in DOMAIN seq : \A j \in 1 .. k - 1 : seq[j] # seq[k]}
        Nth(n) == CHOOSE q \in P : Cardinality({r \in P : r <= q}) = n
    IN  [n \in 1 .. Cardinality(P) |-> seq[Nth(n)]]

\* C4: in listing mode the entries are, at every point, the page-order
\* listing sequences of the processed queries concatenated in query order
\* with later occurrences removed; the written feed has the same sequence;
\* a step only appends entries
C4_FirstSeenOrder ==
    /\ [](/\ LinksOf(rss_items) = FirstOccurrences(contrib)
          /\ pc = "done" =>
               FeedLinks(rssFile.text) = FirstOccurrences(contrib))
    /\ [][IsPrefix(rss_items, rss_items')]_vars

\* C4 witness: queries yielding [A, B] and [B, C] give the feed A, B, C
C4_Witness ==
    /\ pc = "done"
    /\ Len(urls) = 2
    /\ contrib = <<AbsUrl(1), AbsUrl(2), AbsUrl(2), AbsUrl(3)>>
    /\ FeedLinks(rssFile.text) = <<AbsUrl(1), AbsUrl(2), AbsUrl(3)>>

\* C5: in listing mode a page whose text holds the zero-results sentence
\* adds no entry and nothing to the seen-set, whatever links it shows; the
\* seen-set holds the links of the entries only, so that a listing shown
\* on such a page is in the feed only if another query contributed it
C5_ZeroPhraseOverridesLinks ==
    /\ (lastOp.op = "page" /\ lastOp.zero) =>
         lastOp.added = 0 /\ lastOp.seenAdded = {}
    /\ seen_listing_urls = Range(LinksOf(rss_items))
    /\ \A u \in suggested :
         u \in seen_listing_urls => u \in Range(contrib)

\* C5 witness: a listing shown on a zero-results page is contributed by a
\* later query that matches it
C5_Witness ==
    /\ lastOp.op = "page" /\ ~lastOp.zero /\ lastOp.added = 1
    /\ \E u \in suggested :
         /\ u \in Range(lastOp.links)
         /\ rss_items[Len(rss_items)].link = u
         /\ Len(rss_items) = 1

\* C6: a query whose fetch fails or times out contributes no entry and
\* changes nothing for that query (here: the navigation timeout of the
\* listing run)
C6_FailedFetchContributesNothing ==
    (lastOp.op = "page" /\ lastOp.nav = "timeout") =>
        lastOp.added = 0 /\ lastOp.seenAdded = {}

\* C7: no fetch failure escapes: a run is never aborted while queries
\* remain, so every query is processed and the feed-writing step is reached
C7_FetchFailureNeverEscapes ==
    pc = "crashed" => i > Len(urls)

\* C8: in scalar mode a page fetched without the count pattern is handled
\* as a successful fetch of count 0: no alert, no entry, the count on
\* record becomes 0 (and is what the run persists)
C8_NoPatternIsZero ==
    /\ \A k \in DOMAIN log :
        (log[k].fetched /\ ~log[k].matched) =>
            /\ log[k].count = 0
            /\ ~log[k].alerted /\ ~log[k].appended /\ log[k].stored
    /\ (log # <<>> /\ log[Len(log)].fetched /\ ~log[Len(log)].matched) =>
         /\ log[Len(log)].url \in DOMAIN state
         /\ state[log[Len(log)].url] = 0
         /\ pc = "done" => StateGet(load_state(file).map,
                                    log[Len(log)].url) = 0
                           /\ log[Len(log)].url
                                \in DOMAIN load_state(file).map

\* C8 witness: a run ends whose last query had a positive count on record
\* and a page without the pattern; the persisted count is 0
C8_Witness ==
    /\ pc = "done"
    /\ log # <<>>
    /\ log[Len(log)].fetched /\ ~log[Len(log)].matched
    /\ StateGet(Before, log[Len(log)].url) > 0
    /\ load_state(file).map[log[Len(log)].url] = 0

\* a JSON value that is an integer
IsInteger(v) == v.t = "num" /\ v.f = <<>>

\* a JSON value int() converts: an integer, a float the parser reads as a
\* finite double, a string of at most MaxStrDigits digits, true, false
Convertible(v) ==
    \/ v.t \in {"true", "false"}
    \/ v.t = "num" /\ v.f = <<>>
    \/ v.t = "num" /\ v.f # <<>> /\ ~FloatIsInf(v.d)
    \/ v.t = "str" /\ v.d # <<>> /\ Len(v.d) <= MaxStrDigits

\* r is what a convertible value is loaded as: the integer written; 1 and
\* 0 for true and false; for a float the integer part of the double read,
\* with the sign written
LoadedAs(v, r) ==
    LET mag == IF v.t = "num" /\ v.f # <<>> THEN FloatInt(v.d, v.f)
               ELSE DigitsValue(v.d)
    IN  IF v.t = "true" THEN r = 1
        ELSE IF v.t = "false" THEN r = 0
        ELSE r = IF v.neg THEN -mag ELSE mag

\* the map st holds exactly the integers of the map m given to save_state
SameMap(m, st) ==
    /\ DOMAIN st = DOMAIN m
    /\ \A k \in DOMAIN m : JInt(st[k]) = m[k]

\* json.dump can write every integer of the map m
Writable(m) == \A k \in DOMAIN m : Len(m[k].d) <= MaxStrDigits

\* the documents C9 calls malformed: absent, unparseable, no key/value
\* document, or holding a value that is not an integer
MalformedAsClaimed(f) ==
    \/ ~f.exists
    \/ JsonLoad(f.text).kind # "object"
    \/ \E k \in DOMAIN JsonLoad(f.text).data :
         ~IsInteger(JsonLoad(f.text).data[k])

\* the documents load_state gives up on: absent, unparseable, no key/value
\* document, or holding a value int() rejects
Rejected(f) ==
    \/ ~f.exists
    \/ JsonLoad(f.text).kind # "object"
    \/ \E k \in DOMAIN JsonLoad(f.text).data :
         ~Convertible(JsonLoad(f.text).data[k])

\* C9 as stated: load_state never raises and returns the empty map for
\* every absent or malformed document, a value that is not an integer
\* included; save_state then load_state returns the map saved
C9_Original ==
    /\ lastOp.op \in {"load", "reload"} => ~lastOp.raised
    /\ (pc = "loaded" /\ MalformedAsClaimed(file)) => state = EmptyMap
    /\ pc = "reloaded" => SameMap(log[1], state)

\* C9 amended: load_state never raises; it returns the empty map when the
\* document is absent, unparseable, no key/value document or holds a value
\* int() rejects (null, a non-numeric string, an array, a string of more
\* than MaxStrDigits digits, a float read as inf); otherwise it returns
\* every value converted by int(), so numeric strings, floats (as the
\* integer part of the double read) and booleans are loaded as integers;
\* save_state then load_state returns the map saved when every integer of
\* it has at most MaxStrDigits digits; for a map holding a longer integer
\* save_state raises, leaves a cut document, and load_state then returns
\* the empty map
C9_LoadTolerantSaveRoundTrips ==
    /\ lastOp.op \in {"load", "reload"} => ~lastOp.raised
    /\ pc = "loaded" =>
         IF Rejected(file) THEN state = EmptyMap
         ELSE /\ DOMAIN state = DOMAIN JsonLoad(file.text).data
              /\ \A k \in DOMAIN state :
                    LoadedAs(JsonLoad(file.text).data[k], state[k])
    /\ lastOp.op = "save" => (lastOp.raised <=> ~Writable(log[1]))
    /\ pc = "reloaded" =>
         IF Writable(log[1]) THEN SameMap(log[1], state)
         ELSE state = EmptyMap

\* C9 witness: a document holding a numeric string and a float is loaded
\* with both converted
C9_Witness ==
    /\ pc = "loaded"
    /\ file = FileOf(<<LBrace, Member(1, JStr(FALSE, <<5>>)),
                       Member(2, JNum(FALSE, <<2>>, <<7>>)), RBrace>>)
    /\ state = (1 :> 5) @@ (2 :> 2)

\* C10: at every point of check_once, write failures and interruptions
\* included, a state file that held a map when the run started holds that
\* complete document or the complete document of this run's map, never an
\* empty or truncated one
C10_StateFileAtomic ==
    (JsonLoad(file0.text).kind = "object" /\ Before # EmptyMap) =>
        \/ file = file0
        \/ (i > Len(urls) /\ file = save_state(state))

\* C11: under the transition-only policy, over runs of check_once that each
\* completed and left STATE_FILE to the next, a loop iteration alerts only
\* for a fetch that succeeded, whose query either had no successful fetch
\* before or had 0 from its most recent one, and that has not alerted
\* since its last successful fetch with count 0; an iteration whose fetch
\* failed does not alert.
C11_AlertOnlyAfterZeroOrFirstFetch ==
    policy =>
        \A k \in DOMAIN log :
            LET e == log[k]
                h == HistAfter(hist, log, k - 1)
            IN  /\ e.alerted =>
                    /\ Succeeded(e)
                    /\ PageCount(e) > 0
                    /\ h.recent[e.url] \in {None, 0}
                    /\ h.since[e.url] # "alerted"
                /\ ~Succeeded(e) => ~e.alerted

\* a query alerted in an earlier run, a later run fetched it with count
\* 0, and in this run its first fetch failed and its second one alerts
C11_Witness ==
    /\ policy
    /\ hist.since[1] = "rearmed"
    /\ hist.recent[1] = 0
    /\ Len(log) = 2
    /\ log[1].url = 1 /\ ~log[1].fetched
    /\ log[2].url = 1 /\ log[2].alerted
    /\ pc = "done"

====
